---- MODULE Spec2Model ----
(***************************************************************************)
(* A model of DataExtractor (src/data_extractor.py): the text cleaner, the *)
(* five regular-expression extractors, and the chunked load / transform /  *)
(* concatenate / save pipeline.                                            *)
(*                                                                         *)
(* A Python value is a record [type, val]; a str is the sequence of its    *)
(* Unicode codepoints.  A call either returns a value or raises:           *)
(* [kind |-> "return", val |-> v] or [kind |-> "raise", exc |-> name].     *)
(***************************************************************************)
EXTENDS Integers, Sequences, FiniteSets, TLC

VARIABLES
    \* ---- the text functions applied to one value
    input,        \* the argument value
    fn,           \* which function has been applied to it ("none" before)
    result,       \* the outcome of that call
    result2,      \* clean_text applied to the output of clean_text
    \* ---- the DataExtractor object and its environment
    source,       \* the file at self.source_file: [status, rows]
    chunksize,    \* self.chunksize
    data,         \* self.data: None, the list [], or the chunk reader
    df_list,      \* process_text's local accumulator
    df_data,      \* self.df_data: absent until process_text assigns it
    pc,           \* where process_text is
    exc,          \* the exception the last call raised, "" when none
    consumed,     \* how many batches the loop of process_text has taken
    lastSave,     \* how the last save_file ended
    files         \* the files save_file has written: name -> dataset

textVars == <<input, fn, result, result2>>
pipeVars == <<source, chunksize, data, df_list, df_data, pc, exc, consumed,
              lastSave, files>>
vars == <<input, fn, result, result2, source, chunksize, data, df_list,
          df_data, pc, exc, consumed, lastSave, files>>

-----------------------------------------------------------------------------
(* Bounds *)

\* longest text, in tokens, the text functions are applied to
MaxLen == 4
\* most rows in the source file
MaxRows == 3
\* largest chunksize
MaxChunk == 2

-----------------------------------------------------------------------------
(* Codepoints named in the patterns of the source *)

TAB == 9
SPACE == 32
HASH == 35
DOLLAR == 36
COMMA == 44
HYPHEN == 45
DOT == 46
SLASH == 47
COLON == 58
AT == 64
\* sample codepoints of the classes the patterns distinguish
DIGIT5 == 53
LETTER_a == 97
LETTER_e_ACUTE == 233
POUND == 163
EURO == 8364
HOT_BEVERAGE == 9749
SKIN_TONE_1_2 == 127995
SKIN_TONE_4 == 127997
SKIN_TONE_6 == 127999
THUMBS_UP == 128077
GRINNING_FACE == 128512

\* "http" and "https"
HTTP == <<104, 116, 116, 112>>
LETTER_s == 115

-----------------------------------------------------------------------------
(* Python values and call outcomes *)

Str(s) == [type |-> "str", val |-> s]
None == [type |-> "NoneType", val |-> <<>>]
\* a float holds its decimal digits; NaN holds none
NaN == [type |-> "float", val |-> <<>>]
PyInt(n) == [type |-> "int", val |-> <<n>>]

isinstance_str(v) == v.type = "str"
\* v is None
IsNone(v) == v.type = "NoneType"

Return(v) == [kind |-> "return", val |-> v]
Raise(e) == [kind |-> "raise", exc |-> e]
NotCalled == [kind |-> "none"]

Returned(r) == r.kind = "return"
Raised(r) == r.kind = "raise"

-----------------------------------------------------------------------------
(* Character classes of the regex module on str patterns (Unicode), given  *)
(* for Basic Latin, Latin-1, the Arabic-Indic digits and the emoji blocks   *)
(* the model's texts draw from.                                            *)

\* \d
IsDigit(c) == c \in 48..57 \/ c \in 1632..1641

\* \w
IsWord(c) ==
    \/ IsDigit(c)
    \/ c \in 65..90
    \/ c \in 97..122
    \/ c = 95
    \/ c \in {170, 181, 186}
    \/ (c \in 192..255 /\ c \notin {215, 247})

\* \s (U+001C..U+001F, which no text of the model holds, are left out)
IsSpace(c) == c \in 9..13 \/ c \in {32, 133, 160}

\* [a-zA-Z0-9_]
IsAsciiWord(c) == c \in 48..57 \/ c \in 65..90 \/ c \in 97..122 \/ c = 95

\* \p{Emoji_Presentation}
IsEmojiPresentation(c) ==
    \/ c = HOT_BEVERAGE
    \/ c \in SKIN_TONE_1_2..SKIN_TONE_6
    \/ c = THUMBS_UP
    \/ c \in 128512..128591

\* \b between s[p] and s[p+1] (p = 0: the start, p = Len(s): the end)
WordBoundary(s, p) ==
    LET before == p >= 1 /\ p <= Len(s) /\ IsWord(s[p])
        after == p + 1 >= 1 /\ p + 1 <= Len(s) /\ IsWord(s[p + 1])
    IN before # after

\* the number of consecutive characters of s, from index j on, whose index is
\* in P (the indices of s that hold a character of some class): a greedy x+
RunLen(s, j, P) ==
    IF j < 1 \/ j > Len(s)
    THEN 0
    ELSE CHOOSE k \in 0..(Len(s) - j + 1) :
            /\ \A m \in j..(j + k - 1) : m \in P
            /\ (j + k > Len(s) \/ (j + k) \notin P)

Digits(s) == {m \in 1..Len(s) : IsDigit(s[m])}
Words(s) == {m \in 1..Len(s) : IsWord(s[m])}
AsciiWords(s) == {m \in 1..Len(s) : IsAsciiWord(s[m])}
NonSpaces(s) == {m \in 1..Len(s) : ~IsSpace(s[m])}
Emojis(s) == {m \in 1..Len(s) : IsEmojiPresentation(s[m])}

\* s[i .. j-1]
Slice(s, i, j) == SubSeq(s, i, j - 1)

\* whether s holds the characters of lit from index i on
LiteralAt(s, i, lit) ==
    /\ i >= 1
    /\ i + Len(lit) - 1 <= Len(s)
    /\ \A k \in 1..Len(lit) : s[i + k - 1] = lit[k]

\* regex.findall's scan: M[i] is the end (exclusive) of the match that starts
\* at i, 0 when the pattern does not match there.  The scan takes the leftmost
\* match, then resumes at its end: matches never overlap.
RECURSIVE Spans(_, _, _)
Spans(n, pos, M) ==
    IF pos > n
    THEN <<>>
    ELSE IF M[pos] = 0
         THEN Spans(n, pos + 1, M)
         ELSE <<[start |-> pos, end |-> M[pos]]>> \o Spans(n, M[pos], M)

-----------------------------------------------------------------------------
(* clean_text *)

\* the character class of the first regex.sub, before its negation
CleanKeeps(c) ==
    \/ IsWord(c)
    \/ IsSpace(c)
    \/ c \in {35, 64, 58, 36, 37, 46, 63, 33}       \* # @ : $ % . ? !
    \/ c \in 128512..128591                         \* U+1F600-U+1F64F
    \/ c \in 127744..128511                         \* U+1F300-U+1F5FF
    \/ c \in 128640..128767                         \* U+1F680-U+1F6FF
    \/ c \in 128768..128895                         \* U+1F700-U+1F77F

\* regex.sub(r'[^...]+', '', text)
RemoveDisallowed(s) == SelectSeq(s, CleanKeeps)

\* regex.sub(r'\s+', ' ', text)
RECURSIVE CollapseSpaces(_)
CollapseSpaces(s) ==
    IF s = <<>>
    THEN <<>>
    ELSE IF IsSpace(s[1])
         THEN LET k == RunLen(s, 1, {m \in 1..Len(s) : IsSpace(s[m])})
              IN <<SPACE>> \o CollapseSpaces(SubSeq(s, k + 1, Len(s)))
         ELSE <<s[1]>> \o CollapseSpaces(Tail(s))

\* str.isspace, the characters str.strip() removes
StrIsSpace(c) == c \in 9..13 \/ c \in 28..32 \/ c \in {133, 160}

\* str.strip()
Strip(s) ==
    LET kept == {m \in 1..Len(s) : ~StrIsSpace(s[m])}
    IN IF kept = {}
       THEN <<>>
       ELSE LET lo == CHOOSE m \in kept : \A k \in kept : m <= k
                hi == CHOOSE m \in kept : \A k \in kept : m >= k
            IN SubSeq(s, lo, hi)

\* clean_text with its two substitutions in the other order
clean_text_collapse_first(text) ==
    IF ~IsNone(text)
    THEN IF ~isinstance_str(text)
         THEN Raise("TypeError")
         ELSE Return(Str(RemoveDisallowed(Strip(CollapseSpaces(text.val)))))
    ELSE Return(Str(<<>>))

clean_text(text) ==
    IF ~IsNone(text)
    THEN IF ~isinstance_str(text)
         THEN Raise("TypeError")      \* regex.sub on a value that is no str
         ELSE Return(Str(Strip(CollapseSpaces(RemoveDisallowed(text.val)))))
    ELSE Return(Str(<<>>))

-----------------------------------------------------------------------------
(* The extractors *)

\* pd.isna(text) for a scalar
pd_isna(v) == v.type = "NoneType" \/ (v.type = "float" /\ v.val = <<>>)

\* the guard of clean_text in place of the extractors' guard
NotTextNoneOnly(text) == IsNone(text)

\* the guard every extractor starts with
NotText(text) == ~isinstance_str(text) \/ pd_isna(text)

\* the hashtag pattern without its trailing \b
HashtagMatchEnd_no_trailing_boundary(s, i) ==
    IF s[i] = HASH /\ WordBoundary(s, i) /\ RunLen(s, i + 1, AsciiWords(s)) > 0
    THEN i + 1 + RunLen(s, i + 1, AsciiWords(s))
    ELSE 0

\* ---- extract_hashtags: #\b[a-zA-Z0-9_]+\b
\* after '#' and \b the class takes its longest run, and gives characters back
\* until the trailing \b holds
HashtagMatchEnd(s, i) ==
    IF s[i] = HASH /\ WordBoundary(s, i)
    THEN LET n == RunLen(s, i + 1, AsciiWords(s))
             ok == {k \in 1..n : WordBoundary(s, i + k)}
         IN IF ok = {}
            THEN 0
            ELSE i + 1 + (CHOOSE k \in ok : \A m \in ok : k >= m)
    ELSE 0

MatchStrings(s, M) ==
    LET sp == Spans(Len(s), 1, M)
    IN [k \in 1..Len(sp) |-> Str(Slice(s, sp[k].start, sp[k].end))]

extract_hashtags(text) ==
    IF NotText(text)
    THEN Return(<<>>)
    ELSE IF ~isinstance_str(text)
    THEN Raise("TypeError")           \* regex.findall on a value that is no str
    ELSE LET s == text.val
         IN Return(MatchStrings(s, [i \in 1..Len(s) |-> HashtagMatchEnd(s, i)]))

\* ---- extract_urls: https?://\S+
UrlMatchEnd(s, i) ==
    IF LiteralAt(s, i, HTTP)
    THEN LET j == IF LiteralAt(s, i + 4, <<LETTER_s, COLON, SLASH, SLASH>>)
                  THEN i + 8
                  ELSE IF LiteralAt(s, i + 4, <<COLON, SLASH, SLASH>>)
                       THEN i + 7
                       ELSE 0
             n == RunLen(s, j, NonSpaces(s))
         IN IF j = 0 \/ n = 0 THEN 0 ELSE j + n
    ELSE 0

extract_urls(text) ==
    IF NotText(text)
    THEN Return(<<>>)
    ELSE IF ~isinstance_str(text)
    THEN Raise("TypeError")           \* regex.findall on a value that is no str
    ELSE LET s == text.val
         IN Return(MatchStrings(s, [i \in 1..Len(s) |-> UrlMatchEnd(s, i)]))

\* ---- extract_mentions: @\w+
MentionMatchEnd(s, i) ==
    IF s[i] = AT /\ RunLen(s, i + 1, Words(s)) > 0
    THEN i + 1 + RunLen(s, i + 1, Words(s))
    ELSE 0

extract_mentions(text) ==
    IF NotText(text)
    THEN Return(<<>>)
    ELSE IF ~isinstance_str(text)
    THEN Raise("TypeError")           \* regex.findall on a value that is no str
    ELSE LET s == text.val
         IN Return(MatchStrings(s, [i \in 1..Len(s) |-> MentionMatchEnd(s, i)]))

\* ---- extract_price
\* The number pattern [\d]+(?:,\d{3})*(?:\.\d+)? started at j: the ends
\* (exclusive) it can stop at, in the order the matcher tries them.  Every
\* quantifier is greedy: most digits first, then most ,ddd groups, then the
\* fraction with most digits, then no fraction.
GroupsAt(s, j) ==
    \* how many consecutive ,ddd groups s holds from j on
    LET isGroup(p) == /\ p + 3 <= Len(s)
                      /\ s[p] = COMMA
                      /\ \A k \in 1..3 : IsDigit(s[p + k])
        most == (Len(s) + 1) \div 4
    IN IF j < 1 \/ j > Len(s)
       THEN 0
       ELSE CHOOSE g \in 0..most :
               /\ \A k \in 0..(g - 1) : isGroup(j + 4 * k)
               /\ ~isGroup(j + 4 * g)

\* q..1 as a sequence
Downto(q) == [k \in 1..q |-> q + 1 - k]
\* q..0 as a sequence
Downto0(q) == [k \in 1..(q + 1) |-> q + 1 - k]

RECURSIVE Flatten(_)
Flatten(ss) == IF ss = <<>> THEN <<>> ELSE Head(ss) \o Flatten(Tail(ss))

FractionEnds(s, p) ==
    \* (?:\.\d+)? at p: with the fraction, longest first, then without it
    LET f == IF p <= Len(s) /\ s[p] = DOT THEN RunLen(s, p + 1, Digits(s)) ELSE 0
    IN [k \in 1..f |-> p + 1 + Downto(f)[k]] \o <<p>>

NumberEnds(s, j) ==
    LET d == RunLen(s, j, Digits(s))
        afterGroups(dd) ==
            LET g == GroupsAt(s, j + dd)
            IN Flatten([k \in 1..(g + 1) |->
                          FractionEnds(s, j + dd + 4 * Downto0(g)[k])])
    IN Flatten([k \in 1..d |-> afterGroups(Downto(d)[k])])

\* the currency symbols the pattern names
PriceSymbols == {DOLLAR}

\* first alternative \$\s?(number): [end, group start] or 0
PriceLeadingMatch(s, i) ==
    IF s[i] \in PriceSymbols
    THEN LET withSpace == IF i + 1 <= Len(s) /\ IsSpace(s[i + 1])
                          THEN NumberEnds(s, i + 2)
                          ELSE <<>>
             without == NumberEnds(s, i + 1)
         IN IF withSpace # <<>>
            THEN [end |-> withSpace[1], from |-> i + 2, to |-> withSpace[1]]
            ELSE IF without # <<>>
                 THEN [end |-> without[1], from |-> i + 1, to |-> without[1]]
                 ELSE [end |-> 0, from |-> 0, to |-> 0]
    ELSE [end |-> 0, from |-> 0, to |-> 0]

\* the second alternative without its leading \b
PriceTrailingMatch_no_boundary(s, i) ==
    LET ends == SelectSeq(NumberEnds(s, i),
                          LAMBDA e : e <= Len(s) /\ s[e] = DOLLAR)
    IN IF ends # <<>>
       THEN [end |-> ends[1] + 1, from |-> i, to |-> ends[1]]
       ELSE [end |-> 0, from |-> 0, to |-> 0]

\* second alternative \b(number)\$
PriceTrailingMatch(s, i) ==
    IF WordBoundary(s, i - 1)
    THEN LET ends == SelectSeq(NumberEnds(s, i),
                               LAMBDA e : e <= Len(s) /\ s[e] \in PriceSymbols)
         IN IF ends # <<>>
            THEN [end |-> ends[1] + 1, from |-> i, to |-> ends[1]]
            ELSE [end |-> 0, from |-> 0, to |-> 0]
    ELSE [end |-> 0, from |-> 0, to |-> 0]

\* the alternation: the first alternative that matches at i wins
PriceMatch(s, i) ==
    IF PriceLeadingMatch(s, i).end # 0
    THEN PriceLeadingMatch(s, i)
    ELSE PriceTrailingMatch(s, i)

\* price.replace(",", "")
RemoveCommas(s) == SelectSeq(s, LAMBDA c : c # COMMA)

\* the decimal value of a digit character (int() of a Unicode digit)
DigitValue(c) == IF c \in 48..57 THEN c - 48 ELSE c - 1632

RECURSIVE DropLeadingZeros(_)
DropLeadingZeros(ds) ==
    IF ds # <<>> /\ Head(ds) = 0 THEN DropLeadingZeros(Tail(ds)) ELSE ds

RECURSIVE DropTrailingZeros(_)
DropTrailingZeros(ds) ==
    IF ds # <<>> /\ ds[Len(ds)] = 0
    THEN DropTrailingZeros(SubSeq(ds, 1, Len(ds) - 1))
    ELSE ds

\* float(s) of digits with at most one '.', digits on both sides of it: the
\* number as its decimal digits, [int, frac], without leading zeros in int or
\* trailing zeros in frac ("1200.50" and "1200.5" are the same float).  Any
\* other text is a ValueError.
float(s) ==
    LET dots == {m \in 1..Len(s) : s[m] = DOT}
        dot == IF dots = {} THEN Len(s) + 1 ELSE CHOOSE m \in dots : TRUE
        ip == SubSeq(s, 1, dot - 1)
        fp == SubSeq(s, dot + 1, Len(s))
        wellFormed ==
            /\ Cardinality(dots) <= 1
            /\ \A m \in 1..Len(s) : m \in dots \/ IsDigit(s[m])
            /\ ip # <<>>
            /\ (dots # {} => fp # <<>>)
    IN IF wellFormed
       THEN Return([int |-> DropLeadingZeros([k \in 1..Len(ip) |-> DigitValue(ip[k])]),
                    frac |-> DropTrailingZeros([k \in 1..Len(fp) |-> DigitValue(fp[k])])])
       ELSE Raise("ValueError")

extract_price(text) ==
    IF NotText(text)
    THEN Return(<<>>)
    ELSE IF ~isinstance_str(text)
    THEN Raise("TypeError")           \* regex.findall on a value that is no str
    ELSE LET s == text.val
             M == [i \in 1..Len(s) |-> PriceMatch(s, i)]
             sp == Spans(Len(s), 1, [i \in 1..Len(s) |-> M[i].end])
             \* p[0] if p[0] else p[1]: the group of the alternative that matched
             prices == [k \in 1..Len(sp) |->
                          Slice(s, M[sp[k].start].from, M[sp[k].start].to)]
             floats == [k \in 1..Len(prices) |-> float(RemoveCommas(prices[k]))]
         IN IF \E k \in 1..Len(floats) : Raised(floats[k])
            THEN Raise("ValueError")
            ELSE Return([k \in 1..Len(floats) |-> floats[k].val])

\* the emoji pattern without its +
EmojiMatchEnd_single(s, i) ==
    IF RunLen(s, i, Emojis(s)) > 0 THEN i + 1 ELSE 0

\* ---- extract_emoticons
\* (\p{Emoji_Presentation}+): a match is a longest run
EmojiMatchEnd(s, i) ==
    IF RunLen(s, i, Emojis(s)) > 0 THEN i + RunLen(s, i, Emojis(s)) ELSE 0

\* skin_tones: U+1F3FB .. U+1F3FF
skin_tones == SKIN_TONE_1_2..SKIN_TONE_6

\* "".join(c for c in emoji if c not in skin_tones)
RemoveSkinTones(s) == SelectSeq(s, LAMBDA c : c \notin skin_tones)

extract_emoticons(text) ==
    IF NotText(text)
    THEN Return(<<>>)
    ELSE IF ~isinstance_str(text)
    THEN Raise("TypeError")           \* regex.findall on a value that is no str
    ELSE LET s == text.val
             sp == Spans(Len(s), 1, [i \in 1..Len(s) |-> EmojiMatchEnd(s, i)])
         IN Return([k \in 1..Len(sp) |->
                      Str(RemoveSkinTones(Slice(s, sp[k].start, sp[k].end)))])

-----------------------------------------------------------------------------
(* The values the text functions are applied to *)

\* every text made of at most n of the given pieces
TextsOf(pieces, n) ==
    UNION {{Flatten(f) : f \in [1..k -> pieces]} : k \in 0..n}

\* '#', an ASCII letter, a non-ASCII letter, a space
HashtagPieces == {<<HASH>>, <<LETTER_a>>, <<LETTER_e_ACUTE>>, <<SPACE>>}
\* currency symbols, digits, a ,ddd group, a fraction, a comma, a space, a letter
PricePieces == {<<DOLLAR>>, <<EURO>>, <<DIGIT5>>, <<COMMA, 50, 51, 52>>,
                <<DOT, DIGIT5>>, <<COMMA>>, <<SPACE>>, <<LETTER_a>>}
\* two emoji, a skin-tone modifier, a space, a letter
EmojiPieces == {<<GRINNING_FACE>>, <<THUMBS_UP>>, <<SKIN_TONE_4>>, <<SPACE>>,
                <<LETTER_a>>}
\* a letter, two kinds of whitespace, a removed character, a kept punctuation
\* mark, an emoji outside the cleaner's ranges
CleanPieces == {<<LETTER_a>>, <<SPACE>>, <<TAB>>, <<HYPHEN>>, <<HASH>>,
                <<HOT_BEVERAGE>>}

\* "Price: $1,200.50 and 99$"
ExamplePriceText ==
    <<80, 114, 105, 99, 101, 58, 32, 36, 49, 44, 50, 48, 48, 46, 53, 48, 32,
      97, 110, 100, 32, 57, 57, 36>>
\* two grinning faces, " great day ", a thumbs-up between two skin tones
ExampleEmojiText ==
    <<128512, 128512, 32, 103, 114, 101, 97, 116, 32, 100, 97, 121, 32,
      127997, 128077, 127997>>
\* "Loving #sunnyDay and #coffee (hot beverage) @joe, check https://x.co #coffee"
ExampleHashtagText ==
    <<76, 111, 118, 105, 110, 103, 32, 35, 115, 117, 110, 110, 121, 68, 97,
      121, 32, 97, 110, 100, 32, 35, 99, 111, 102, 102, 101, 101, 32, 9749,
      32, 64, 106, 111, 101, 44, 32, 99, 104, 101, 99, 107, 32, 104, 116,
      116, 112, 115, 58, 47, 47, 120, 46, 99, 111, 32, 35, 99, 111, 102,
      102, 101, 101>>

Texts ==
    TextsOf(HashtagPieces, MaxLen) \cup TextsOf(PricePieces, MaxLen)
      \cup TextsOf(EmojiPieces, MaxLen) \cup TextsOf(CleanPieces, MaxLen)
      \cup {ExamplePriceText, ExampleEmojiText, ExampleHashtagText}

\* None, the missing-value marker, a float, an int
NonStrings == {None, NaN, [type |-> "float", val |-> <<5>>], PyInt(5)}

Inputs == NonStrings \cup {Str(t) : t \in Texts}

-----------------------------------------------------------------------------
(* The pipeline *)

\* the columns read_csv projects, and the ones process_text adds, in order
LoadedColumns == <<"text", "user_name">>
AddedColumns ==
    <<"Hashtags", "URLs", "Prices", "Emoticons", "Mentions", "text_cleaned">>

\* the function process_text applies for each added column
Apply(column, text) ==
    CASE column = "Hashtags" -> extract_hashtags(text)
      [] column = "URLs" -> extract_urls(text)
      [] column = "Prices" -> extract_price(text)
      [] column = "Emoticons" -> extract_emoticons(text)
      [] column = "Mentions" -> extract_mentions(text)
      [] column = "text_cleaned" -> clean_text(text)

\* The six assignments chunk[column] = chunk["text"].apply(f) of the loop
\* body, given out[c][k], the outcome of column c's function on row k.  They
\* run column by column and, within a column, row by row: the first call that
\* raises ends the body with its exception.  Otherwise every row keeps its
\* place and gains the six values.
AssignColumns(chunk, out) ==
    LET n == Len(chunk.rows)
        bad == {ck \in (1..Len(AddedColumns)) \X (1..n) : Raised(out[ck[1]][ck[2]])}
        first == CHOOSE ck \in bad :
                    \A o \in bad : ck[1] < o[1] \/ (ck[1] = o[1] /\ ck[2] <= o[2])
    IN IF bad # {}
       THEN Raise(out[first[1]][first[2]].exc)
       ELSE Return([columns |-> chunk.columns \o AddedColumns,
                    rows |-> [k \in 1..n |->
                                [text |-> chunk.rows[k].text,
                                 user_name |-> chunk.rows[k].user_name,
                                 Hashtags |-> out[1][k].val,
                                 URLs |-> out[2][k].val,
                                 Prices |-> out[3][k].val,
                                 Emoticons |-> out[4][k].val,
                                 Mentions |-> out[5][k].val,
                                 text_cleaned |-> out[6][k].val]]])

TransformChunk(chunk) ==
    AssignColumns(chunk,
                  [c \in 1..Len(AddedColumns) |->
                     [k \in 1..Len(chunk.rows) |->
                        Apply(AddedColumns[c], chunk.rows[k].text)]])

\* the batches the reader yields for a readable file: at most cs rows each, in
\* file order; a file with a header and no rows yields one batch of no rows
RECURSIVE Split(_, _)
Split(rows, cs) ==
    IF Len(rows) <= cs
    THEN <<rows>>
    ELSE <<SubSeq(rows, 1, cs)>> \o Split(SubSeq(rows, cs + 1, Len(rows)), cs)

Batches(src, cs) ==
    LET parts == Split(src.rows, cs)
    IN [k \in 1..Len(parts) |-> [columns |-> LoadedColumns, rows |-> parts[k]]]

\* load_data: the reader over the file, or [] when read_csv raised
load_data(src, cs) ==
    IF src.status = "ok"
    THEN [kind |-> "reader", batches |-> Batches(src, cs)]
    ELSE [kind |-> "list", batches |-> <<>>]

\* pd_concat with the batches taken last first
pd_concat_reversed(list) ==
    IF list = <<>>
    THEN Raise("ValueError")
    ELSE Return([columns |-> list[1].columns,
                 rows |-> Flatten([k \in 1..Len(list) |->
                                     list[Len(list) + 1 - k].rows])])

\* pd.concat(df_list, ignore_index=True)
pd_concat(list) ==
    IF list = <<>>
    THEN Raise("ValueError")          \* No objects to concatenate
    ELSE Return([columns |-> list[1].columns,
                 rows |-> Flatten([k \in 1..Len(list) |-> list[k].rows])])

\* the for loop of process_text, given each batch's transform: the accumulator
\* it ends with and the number of batches it took, or the exception of the
\* first batch whose transform raised
LoopOver(transformed) ==
    LET bad == {k \in 1..Len(transformed) : Raised(transformed[k])}
        first == CHOOSE k \in bad : \A m \in bad : k <= m
    IN IF bad # {}
       THEN [kind |-> "raise", exc |-> transformed[first].exc, taken |-> first]
       ELSE [kind |-> "return",
             val |-> [k \in 1..Len(transformed) |-> transformed[k].val],
             taken |-> Len(transformed)]

Loop(batches) ==
    LoopOver([k \in 1..Len(batches) |-> TransformChunk(batches[k])])

\* process_text as a whole: what self.data and self.df_data become and how the
\* call ends
Absent == [kind |-> "absent"]
Present(df) == [kind |-> "dataframe", df |-> df]

\* lines 119-120, after a loop that ended normally with the list acc
Concatenate(loaded, acc, taken, cat, old_df_data) ==
    IF Raised(cat)
    THEN [data |-> loaded, df_list |-> <<>>, df_data |-> old_df_data,
          pc |-> "raised", exc |-> cat.exc, consumed |-> taken]
    ELSE [data |-> loaded, df_list |-> acc, df_data |-> Present(cat.val),
          pc |-> "returned", exc |-> "", consumed |-> taken]

AfterLoop(loaded, loop, old_df_data) ==
    IF Raised(loop)
    THEN [data |-> loaded, df_list |-> <<>>, df_data |-> old_df_data,
          pc |-> "raised", exc |-> loop.exc, consumed |-> loop.taken]
    ELSE Concatenate(loaded, loop.val, loop.taken, pd_concat(loop.val),
                     old_df_data)

AfterLoad(loaded, old_df_data) ==
    AfterLoop(loaded, Loop(loaded.batches), old_df_data)

process_text(src, cs, old_df_data) ==
    AfterLoad(load_data(src, cs), old_df_data)

-----------------------------------------------------------------------------
(* The source files and the initial states *)

\* the text column of a row: two texts, and the missing-value marker read_csv
\* puts where a row has no text
\* "#a $5" and "@a" followed by a grinning face
RowTexts == {Str(<<HASH, LETTER_a, SPACE, DOLLAR, DIGIT5>>),
             Str(<<AT, LETTER_a, SPACE, GRINNING_FACE>>),
             NaN}

\* row k of a file: its user_name is "u" and the digit k, so no two rows of a
\* file are equal
UserName(k) == Str(<<117, 48 + k>>)

\* "missing": read_csv raises when the reader is built (no file at the path,
\* or a file with no header line); "ok": a header and rows
Sources ==
    {[status |-> "missing", rows |-> <<>>]} \cup
    UNION {{[status |-> "ok",
             rows |-> [k \in 1..n |-> [text |-> t[k], user_name |-> UserName(k)]]]
              : t \in [1..n -> RowTexts]} : n \in 0..MaxRows}

FileNames == {"out"}

NoData == [kind |-> "None", batches |-> <<>>]

\* __init__: no data loaded, no df_data attribute
InitObject(src, cs) ==
    /\ source = src
    /\ chunksize = cs
    /\ data = NoData
    /\ df_list = <<>>
    /\ df_data = Absent
    /\ pc = "idle"
    /\ exc = ""
    /\ consumed = 0
    /\ lastSave = "none"
    /\ files = {}

NoCall ==
    /\ input = None
    /\ fn = "none"
    /\ result = NotCalled
    /\ result2 = NotCalled

Init ==
    /\ \E src \in Sources, cs \in 1..MaxChunk : InitObject(src, cs)
    /\ NoCall

-----------------------------------------------------------------------------
(* The operations of a DataExtractor *)

LoadData ==
    /\ data' = load_data(source, chunksize)
    /\ UNCHANGED <<source, chunksize, df_list, df_data, pc, exc, consumed,
                   lastSave, files>>
    /\ UNCHANGED textVars

ProcessText ==
    \E r \in {process_text(source, chunksize, df_data)} :
       /\ data' = r.data
       /\ df_list' = r.df_list
       /\ df_data' = r.df_data
       /\ pc' = r.pc
       /\ exc' = r.exc
       /\ consumed' = r.consumed
       /\ UNCHANGED <<source, chunksize, lastSave, files>>
       /\ UNCHANGED textVars

\* to_csv(file_name + ".csv", index=False): the file holds the whole dataset
to_csv(fs, file_name, df) ==
    {f \in fs : f.name # file_name \o ".csv"}
        \cup {[name |-> file_name \o ".csv", df |-> df]}

SaveFile(file_name) ==
    /\ IF df_data.kind = "absent"
       THEN \* self.df_data was never assigned: the attribute read raises
            /\ lastSave' = "raised"
            /\ exc' = "AttributeError"
            /\ UNCHANGED <<data, df_list, df_data, pc, consumed, files>>
       ELSE IF df_data.kind = "None"
       THEN \E r \in {process_text(source, chunksize, df_data)} :
               /\ data' = r.data
               /\ df_list' = r.df_list
               /\ df_data' = r.df_data
               /\ pc' = r.pc
               /\ consumed' = r.consumed
               /\ IF r.pc = "raised"
                  THEN /\ lastSave' = "raised"
                       /\ exc' = r.exc
                       /\ UNCHANGED files
                  ELSE /\ lastSave' = "wrote"
                       /\ exc' = ""
                       /\ files' = to_csv(files, file_name, r.df_data.df)
       ELSE /\ lastSave' = "wrote"
            /\ exc' = ""
            /\ files' = to_csv(files, file_name, df_data.df)
            /\ UNCHANGED <<data, df_list, df_data, pc, consumed>>
    /\ UNCHANGED <<source, chunksize>>
    /\ UNCHANGED textVars

Next ==
    \/ LoadData
    \/ ProcessText
    \/ \E file_name \in FileNames : SaveFile(file_name)

Spec == Init /\ [][Next]_vars

-----------------------------------------------------------------------------
(* The text functions, each applied to one value *)

InitText ==
    /\ input \in Inputs
    /\ fn = "none"
    /\ result = NotCalled
    /\ result2 = NotCalled
    /\ InitObject([status |-> "missing", rows |-> <<>>], 1)

Call(name, out) ==
    /\ fn = "none"
    /\ fn' = name
    /\ result' = out
    /\ UNCHANGED <<input, result2>>
    /\ UNCHANGED pipeVars

CallCleanText == Call("clean_text", clean_text(input))
CallExtractHashtags == Call("extract_hashtags", extract_hashtags(input))
CallExtractUrls == Call("extract_urls", extract_urls(input))
CallExtractPrice == Call("extract_price", extract_price(input))
CallExtractEmoticons == Call("extract_emoticons", extract_emoticons(input))
CallExtractMentions == Call("extract_mentions", extract_mentions(input))

\* clean_text applied to what clean_text returned
CallCleanTextAgain ==
    /\ fn = "clean_text"
    /\ Returned(result)
    /\ fn' = "clean_text_twice"
    /\ result2' = clean_text(result.val)
    /\ UNCHANGED <<input, result>>
    /\ UNCHANGED pipeVars

NextText ==
    \/ CallCleanText
    \/ CallCleanTextAgain
    \/ CallExtractHashtags
    \/ CallExtractUrls
    \/ CallExtractPrice
    \/ CallExtractEmoticons
    \/ CallExtractMentions

SpecText == InitText /\ [][NextText]_vars

-----------------------------------------------------------------------------
(* Properties of the pipeline, checked under Spec *)

FinishedRun == pc \in {"returned", "raised"}

\* C1: the dataset process_text returns holds exactly one record per row of
\* the source, in the order of the source (batch order, then row order within
\* the batch), whatever the chunksize splits the rows into.
C1_RowOrderPreserved ==
    pc = "returned" =>
        /\ df_data.kind = "dataframe"
        /\ Len(df_data.df.rows) = Len(source.rows)
        /\ \A k \in 1..Len(source.rows) :
              /\ df_data.df.rows[k].text = source.rows[k].text
              /\ df_data.df.rows[k].user_name = source.rows[k].user_name

\* a run that returned after taking several batches of a three-row source
C1_Witness ==
    /\ pc = "returned"
    /\ Len(source.rows) >= 3
    /\ consumed >= 2
    /\ Len(df_data.df.rows) >= 3

\* C2: when the loader produced zero batches (an empty source, or a load
\* error caught in load_data), process_text returns normally an empty dataset
\* with the full column schema: it never raises and never leaves the result
\* missing.
C2_ZeroBatchesGiveEmptyDataset ==
    (FinishedRun /\ consumed = 0) =>
        /\ pc = "returned"
        /\ df_data.kind = "dataframe"
        /\ df_data.df.rows = <<>>
        /\ df_data.df.columns = LoadedColumns \o AddedColumns

\* C3: save_file never raises, in any state of the object: with the dataset
\* empty or absent it is a reported no-op that writes no file, and otherwise
\* it writes the whole dataset to name + ".csv".
C3_SaveFileNeverRaises ==
    lastSave # "none" =>
        /\ lastSave # "raised"
        /\ IF df_data.kind # "dataframe"
           THEN lastSave = "noop" /\ files = {}
           ELSE IF df_data.df.rows = <<>>
                THEN lastSave = "noop" /\ files = {}
                ELSE /\ lastSave = "wrote"
                     /\ \E f \in files : f.df = df_data.df

\* whether one of the six functions of the loop body raises on this row
RowFails(row) ==
    \E c \in 1..Len(AddedColumns) : Raised(Apply(AddedColumns[c], row.text))

\* C4: a failure of cleaning or of an extractor on one row does not end the
\* run: process_text still takes every remaining batch and returns a dataset
\* with the records of all the other rows.
C4_RowFailureDoesNotEndRun ==
    (FinishedRun /\ \E k \in 1..Len(source.rows) : RowFails(source.rows[k])) =>
        /\ pc = "returned"
        /\ consumed = Len(Batches(source, chunksize))
        /\ LET others == SelectSeq(source.rows, LAMBDA row : ~RowFails(row))
           IN /\ Len(df_data.df.rows) = Len(others)
              /\ \A k \in 1..Len(others) :
                    df_data.df.rows[k].user_name = others[k].user_name

-----------------------------------------------------------------------------
(* Properties of the text functions, checked under SpecText *)

Extractors == {"extract_hashtags", "extract_urls", "extract_price",
               "extract_emoticons", "extract_mentions"}

\* C5: clean_text returns the empty string, and raises nothing, for every
\* input that is not a string, None and NaN included.
C5_CleanTextEmptyForNonStrings ==
    (fn = "clean_text" /\ ~isinstance_str(input)) =>
        /\ Returned(result)
        /\ result.val = Str(<<>>)

\* C6: clean_text is idempotent on strings: a second pass returns the output
\* of the first, which holds no character a pass removes and no whitespace a
\* pass collapses or trims (every whitespace character of it is one space
\* between two characters that are not whitespace).
C6_CleanTextIdempotent ==
    (fn \in {"clean_text", "clean_text_twice"} /\ isinstance_str(input)) =>
        /\ Returned(result)
        /\ LET o == result.val.val
           IN \A m \in 1..Len(o) :
                 /\ CleanKeeps(o[m])
                 /\ (IsSpace(o[m]) \/ StrIsSpace(o[m])) =>
                       /\ o[m] = SPACE
                       /\ m > 1 /\ m < Len(o)
                       /\ ~IsSpace(o[m - 1]) /\ ~IsSpace(o[m + 1])
        /\ fn = "clean_text_twice" =>
              Returned(result2) /\ result2.val = result.val

\* a second pass over the output of a first pass that removed or collapsed
\* something and left at least three characters
C6_Witness ==
    /\ fn = "clean_text_twice"
    /\ isinstance_str(input)
    /\ Returned(result)
    /\ result.val.val # input.val
    /\ Len(result.val.val) >= 3

\* C7: for every input that is not a string (None, NaN, numbers) each of the
\* five extractors returns the empty list and raises nothing.
C7_ExtractorsEmptyForNonStrings ==
    (fn \in Extractors /\ ~isinstance_str(input)) =>
        /\ Returned(result)
        /\ result.val = <<>>

\* an extractor applied to the missing-value marker
C7_Witness ==
    /\ fn = "extract_price"
    /\ input.type = "float"
    /\ input.val = <<>>
    /\ Returned(result)

\* the members of a set of indices, in increasing order
InOrder(S) ==
    [k \in 1..Cardinality(S) |->
       CHOOSE i \in S : Cardinality({j \in S : j < i}) = k - 1]

\* the index after the run of word characters that starts at j
WordRunEnd(s, j) ==
    CHOOSE e \in j..(Len(s) + 1) :
       /\ \A m \in j..(e - 1) : IsWord(s[m])
       /\ (e > Len(s) \/ ~IsWord(s[e]))

\* One entry for each '#' that a word character follows, the '#' with the
\* whole run of word characters after it, in order of appearance; with
\* asciiOnly, only the '#' whose run is made of ASCII letters, digits and
\* underscores.
HashtagOccurrences(s, asciiOnly) ==
    LET starts == {i \in 1..Len(s) :
                     /\ s[i] = HASH
                     /\ WordRunEnd(s, i + 1) > i + 1
                     /\ asciiOnly =>
                           \A m \in (i + 1)..(WordRunEnd(s, i + 1) - 1) :
                              IsAsciiWord(s[m])}
        at == InOrder(starts)
    IN [k \in 1..Len(at) |-> Str(SubSeq(s, at[k], WordRunEnd(s, at[k] + 1) - 1))]

\* C8 as stated: extract_hashtags returns one entry for each '#' followed by
\* word characters, Unicode-aware (non-ASCII letters count), the entry being
\* the '#' and the whole run, in order, repeats kept.
C8_HashtagsEveryWordRun ==
    (fn = "extract_hashtags" /\ isinstance_str(input)) =>
        /\ Returned(result)
        /\ result.val = HashtagOccurrences(input.val, FALSE)

\* C8 as amended: extract_hashtags returns one entry for each '#' followed by
\* a run of word characters that are all ASCII letters, digits or underscores
\* (a '#' whose run of word characters holds a non-ASCII one gives no entry),
\* the entry being the '#' and the whole run, in order, repeats kept.
C8_HashtagsAsciiWordRun ==
    (fn = "extract_hashtags" /\ isinstance_str(input)) =>
        /\ Returned(result)
        /\ result.val = HashtagOccurrences(input.val, TRUE)
        /\ input.val = ExampleHashtagText =>
              result.val = <<Str(<<35, 115, 117, 110, 110, 121, 68, 97, 121>>),
                             Str(<<35, 99, 111, 102, 102, 101, 101>>),
                             Str(<<35, 99, 111, 102, 102, 101, 101>>)>>

\* a text with a '#' before a non-ASCII letter and a hashtag that is returned
C8_Witness ==
    /\ fn = "extract_hashtags"
    /\ isinstance_str(input)
    /\ \E i \in 1..(Len(input.val) - 1) :
          input.val[i] = HASH /\ input.val[i + 1] = LETTER_e_ACUTE
    /\ Returned(result)
    /\ Len(result.val) >= 1

\* whether t is digits, then any number of ,ddd groups, then at most one
\* fraction of '.' and digits
IsNumber(t) ==
    \E a \in 1..Len(t) : \E b \in a..Len(t) :
       /\ \A m \in 1..a : IsDigit(t[m])
       /\ (b - a) % 4 = 0
       /\ \A m \in (a + 1)..b :
             IF (m - a) % 4 = 1 THEN t[m] = COMMA ELSE IsDigit(t[m])
       /\ \/ b = Len(t)
          \/ /\ b + 2 <= Len(t)
             /\ t[b + 1] = DOT
             /\ \A m \in (b + 2)..Len(t) : IsDigit(t[m])

\* the value of a number: its digits before and after the '.', the ','
\* dropped, without leading zeros before or trailing zeros after
DecimalOf(t) ==
    LET dot == IF \E m \in 1..Len(t) : t[m] = DOT
               THEN CHOOSE m \in 1..Len(t) : t[m] = DOT
               ELSE Len(t) + 1
        before == InOrder({m \in 1..(dot - 1) : t[m] # COMMA})
        after == InOrder({m \in (dot + 1)..Len(t) : TRUE})
        lead == {m \in 1..Len(before) : \A j \in 1..m : DigitValue(t[before[j]]) = 0}
        trail == {m \in 1..Len(after) :
                    \A j \in m..Len(after) : DigitValue(t[after[j]]) = 0}
    IN [int |-> [k \in 1..(Len(before) - Cardinality(lead)) |->
                   DigitValue(t[before[k + Cardinality(lead)]])],
        frac |-> [k \in 1..(Len(after) - Cardinality(trail)) |->
                    DigitValue(t[after[k]])]]

\* An amount that starts at i: a symbol, then (with gap, after at most one
\* whitespace character) the longest number; or else a number that starts at
\* i, not right after a word character, with a symbol right after it.
\* [from, to): the number; end: the index after the amount; 0: none.
AmountAt(s, i, symbols, gap) ==
    LET j == IF gap /\ i + 1 <= Len(s) /\ IsSpace(s[i + 1]) THEN i + 2 ELSE i + 1
        lead == {e \in (j + 1)..(Len(s) + 1) : IsNumber(SubSeq(s, j, e - 1))}
        trail == {e \in (i + 1)..Len(s) :
                    /\ IsNumber(SubSeq(s, i, e - 1))
                    /\ s[e] \in symbols}
    IN IF s[i] \in symbols /\ lead # {}
       THEN LET e == CHOOSE x \in lead : \A y \in lead : x >= y
            IN [from |-> j, to |-> e, end |-> e]
       ELSE IF (i = 1 \/ ~IsWord(s[i - 1])) /\ trail # {}
            THEN LET e == CHOOSE x \in trail : TRUE
                 IN [from |-> i, to |-> e, end |-> e + 1]
            ELSE [from |-> 0, to |-> 0, end |-> 0]

\* the values of the amounts of s from pos on, left to right, none
\* overlapping an earlier one
RECURSIVE Amounts(_, _, _, _)
Amounts(s, pos, symbols, gap) ==
    IF pos > Len(s)
    THEN <<>>
    ELSE IF AmountAt(s, pos, symbols, gap).end = 0
         THEN Amounts(s, pos + 1, symbols, gap)
         ELSE <<DecimalOf(SubSeq(s, AmountAt(s, pos, symbols, gap).from,
                                 AmountAt(s, pos, symbols, gap).to - 1))>>
                \o Amounts(s, AmountAt(s, pos, symbols, gap).end, symbols, gap)

\* 1200.5 and 99.0
ExamplePrices ==
    <<[int |-> <<1, 2, 0, 0>>, frac |-> <<5>>], [int |-> <<9, 9>>, frac |-> <<>>]>>

\* C9 as stated: extract_price returns one number per amount written with a
\* currency symbol, $ or the euro or pound sign, immediately before or
\* immediately after the digits, in order, repeats kept, each the digits with
\* the symbol and the ',' separators stripped.
C9_PricesAnyCurrencySymbol ==
    (fn = "extract_price" /\ isinstance_str(input)) =>
        /\ Returned(result)
        /\ result.val = Amounts(input.val, 1, {DOLLAR, EURO, POUND}, FALSE)

\* C9 as amended: extract_price returns one number per amount written with
\* '$' (no other currency symbol) either before the digits, with at most one
\* whitespace character between, or immediately after digits that do not
\* directly follow a word character; amounts are taken left to right without
\* overlap, in order, repeats kept, each the digits with the symbol and the
\* ',' separators stripped; "Price: $1,200.50 and 99$" gives [1200.50, 99.0].
C9_PricesDollarOnly ==
    (fn = "extract_price" /\ isinstance_str(input)) =>
        /\ Returned(result)
        /\ result.val = Amounts(input.val, 1, {DOLLAR}, TRUE)
        /\ input.val = ExamplePriceText => result.val = ExamplePrices

\* the example: a leading '$' with separators and a fraction, a trailing '$'
C9_Witness ==
    /\ fn = "extract_price"
    /\ isinstance_str(input)
    /\ input.val = ExamplePriceText
    /\ Returned(result)
    /\ Len(result.val) = 2

\* U+1F3FB .. U+1F3FF, the five skin-tone modifiers
IsSkinToneModifier(c) == c \in 127995..127999

\* one entry per maximal run of emoji-presentation characters, in order: the
\* run without its skin-tone modifiers
EmojiRuns(s) ==
    LET starts == {i \in 1..Len(s) :
                     /\ IsEmojiPresentation(s[i])
                     /\ (i = 1 \/ ~IsEmojiPresentation(s[i - 1]))}
        last(i) == CHOOSE e \in i..Len(s) :
                      /\ \A m \in i..e : IsEmojiPresentation(s[m])
                      /\ (e = Len(s) \/ ~IsEmojiPresentation(s[e + 1]))
        at == InOrder(starts)
    IN [k \in 1..Len(at) |->
          Str(SelectSeq(SubSeq(s, at[k], last(at[k])),
                        LAMBDA c : ~IsSkinToneModifier(c)))]

\* C10: extract_emoticons returns exactly one entry per maximal run of
\* consecutive emoji-presentation characters, in order and without
\* deduplication, each entry the run with the five skin-tone modifiers
\* removed; the example gives the two grinning faces and the thumbs-up.
C10_EmoticonsMaximalRuns ==
    (fn = "extract_emoticons" /\ isinstance_str(input)) =>
        /\ Returned(result)
        /\ result.val = EmojiRuns(input.val)
        /\ input.val = ExampleEmojiText =>
              result.val = <<Str(<<128512, 128512>>), Str(<<128077>>)>>

\* the example: a run of two emoji, and a run with skin-tone modifiers
C10_Witness ==
    /\ fn = "extract_emoticons"
    /\ isinstance_str(input)
    /\ input.val = ExampleEmojiText
    /\ Returned(result)
    /\ Len(result.val) = 2

====
